---- MODULE Spec2Model ----
(***************************************************************************)
(* HeavyKeeper top-K sketch (segmentio/topk): the counter matrix with      *)
(* probabilistic decay and the fixed-size min-heap of the K best flows.    *)
(* The model follows the variant with Sample / TopInto / DecayAll.         *)
(***************************************************************************)
EXTENDS Integers, Sequences, FiniteSets, TLC

\* ---------------------------------------------------------------- bounds
MaxK     == 3    \* New is called with k in 1..MaxK
MaxIncr  == 2    \* Sample is called with incr in 0..MaxIncr
MaxTotal == 5    \* the weights of all Sample calls since New/Reset sum to at most this
MaxLongTotal == 7   \* the same sum in the specification of Sample and Reset calls only
\* Counts are uint32 in the code.  Within these bounds no count comes near 2^32,
\* so count += incr never wraps, and count-- is only executed on a count >= 1.

\* ------------------------------------------------------ program constants
MinWidth == 256
MinDepth == 3

\* The flows the callers use; "" is a string the API accepts like any other.
Flows == {"", "a", "b"}

Max(a, b) == IF a < b THEN b ELSE a

\* int(math.Log(float64(k))): the thresholds are e, e^2, e^3 rounded up.
IntLog(k) == IF k < 3 THEN 0 ELSE IF k < 8 THEN 1 ELSE IF k < 21 THEN 2 ELSE 3

\* int(float64(k) * math.Log(float64(k))) for the k the model constructs.
IntKLogK(k) == CASE k = 1 -> 0 [] k = 2 -> 1 [] k = 3 -> 3 [] k = 4 -> 5
                 [] OTHER -> 8

Width(k) == IF IntKLogK(k) < MinWidth THEN MinWidth ELSE IntKLogK(k)
Depth(k) == IF IntLog(k) < MinDepth THEN MinDepth ELSE IntLog(k)

emptyBucket    == [fingerprint |-> 0, count |-> 0]
emptyFlowCount == [Flow |-> "", Count |-> 0]

VARIABLES
    k,        \* the k given to New (len(hk.heap))
    decayOne, \* TRUE iff hk.decay = 1.0 (otherwise 0 < hk.decay < 1)
    hash,     \* the hash function: [fp: Flows -> uint32, sum: Flows \X rows -> uint32]
    buckets,  \* hk.buckets: [0 .. depth*width-1 -> bucket]
    heap,     \* hk.heap: [0 .. k-1 -> FlowCount]
    weight,   \* ghost: cumulative weight given to Sample per flow since New/Reset
    last      \* ghost: the last completed call and what it returned

vars == <<k, decayOne, hash, buckets, heap, weight, last>>

\* ------------------------------------------------------------------ hash
FlowIdx(f) == CASE f = "" -> 0 [] f = "a" -> 1 [] f = "b" -> 2

Rows(kk) == 0 .. Depth(kk) - 1

\* xxhash.ChecksumString32S is an opaque function of (string, seed); these are
\* the hash functions the model draws from.  fp[f] is the checksum under seed
\* math.MaxUint32, sum[<<f, i>>] the checksum under seed i.
\*   "distinct": no two flows share a fingerprint or a cell
\*   "collide" : distinct fingerprints, all flows share one cell in every row
\*   "row0"    : distinct fingerprints, all flows share a cell in row 0 only
\*   "samefp"  : "a" and "b" share their fingerprint and all their cells
HashOf(name, kk) ==
    [fp  |-> [f \in Flows |->
                IF name = "samefp" /\ f = "b" THEN FlowIdx("a") + 1
                                              ELSE FlowIdx(f) + 1],
     sum |-> [p \in Flows \X Rows(kk) |->
                CASE name = "distinct" -> FlowIdx(p[1]) + p[2]
                  [] name = "collide"  -> FlowIdx(p[1]) * Width(kk)
                  [] name = "row0"     -> IF p[2] = 0 THEN FlowIdx(p[1]) * Width(kk)
                                                      ELSE FlowIdx(p[1]) + p[2]
                  [] name = "samefp"   -> IF p[1] = "" THEN 1 ELSE 0]]

\* The (decay, hash function) pairs New is called with.  Where no two flows
\* with different fingerprints share a cell no draw is ever made, and the
\* value of decay has no effect.
Configs ==
    {[hash |-> "distinct", one |-> FALSE],
     [hash |-> "row0",     one |-> FALSE],
     [hash |-> "collide",  one |-> TRUE],
     [hash |-> "samefp",   one |-> FALSE]}

\* The sketches the specification of the random draws builds.
DrawConfigs ==
    {[k |-> 1, hash |-> "row0", one |-> FALSE],
     [k |-> 2, hash |-> "row0", one |-> FALSE]}

\* The sketches the logged specification builds.
LogConfigs ==
    {[k |-> 1, hash |-> "collide",  one |-> TRUE],
     [k |-> 2, hash |-> "collide",  one |-> TRUE],
     [k |-> 1, hash |-> "distinct", one |-> FALSE],
     [k |-> 2, hash |-> "distinct", one |-> FALSE]}

fingerprint(flow) == hash.fp[flow]

slot(flow, row, width) == hash.sum[<<flow, row>>] % width

\* ------------------------------------------------------------- minHeap
HeapLen(h) == k

Less(h, i, j) == h[i].Count < h[j].Count

Swap(h, i, j) == [h EXCEPT ![i] = h[j], ![j] = h[i]]

\* Mutant of Min: the count of the last entry of the array is read.
MinOfLast(h) == h[HeapLen(h) - 1].Count

Min(h) == h[0].Count

\* The index of the first entry that holds flow, -1 if there is none.
RECURSIVE FindFrom(_, _, _)
FindFrom(h, flow, i) ==
    IF i >= HeapLen(h) THEN -1
    ELSE IF h[i].Flow = flow THEN i
    ELSE FindFrom(h, flow, i + 1)

Find(h, flow) == FindFrom(h, flow, 0)

\* container/heap: down(h, i0, n) sifts down and reports where the entry ended.
RECURSIVE down(_, _, _)
down(h, i, n) ==
    LET j1 == 2 * i + 1
        j  == IF j1 + 1 < n /\ Less(h, j1 + 1, j1) THEN j1 + 1 ELSE j1
    IN  IF j1 >= n THEN [h |-> h, i |-> i]
        ELSE IF ~Less(h, j, i) THEN [h |-> h, i |-> i]
        ELSE down(Swap(h, i, j), j, n)

\* container/heap: up(h, j) sifts up; (j - 1) / 2 truncates toward zero.
RECURSIVE up(_, _)
up(h, j) ==
    LET i == IF j = 0 THEN 0 ELSE (j - 1) \div 2
    IN  IF i = j \/ ~Less(h, j, i) THEN h
        ELSE up(Swap(h, i, j), i)

\* Mutant of Fix: the entry is left where it was written.
FixNothing(h, i) == h

\* container/heap: Fix(h, i) == if !down(h, i, h.Len()) { up(h, i) }
Fix(h, i) ==
    LET d == down(h, i, HeapLen(h))
    IN  IF d.i > i THEN d.h ELSE up(h, i)

\* --------------------------------------------------------------- Sample
\* The outcomes of the draws rand.Float64() < math.Pow(hk.decay, count) of one
\* row, draws[n] for the n-th draw.  The occupant's count is >= 1 at every
\* draw, so the power is 1 when decay = 1 (the draw always succeeds) and lies
\* strictly between 0 and 1 otherwise (the draw may go either way).
Draws(incr) ==
    IF decayOne THEN {[n \in 1 .. incr |-> TRUE]}
                ELSE [1 .. incr -> BOOLEAN]

\* Mutant of DecayLoop: the occupant is evicted one decrement early.
RECURSIVE DecayLoopEager(_, _, _, _, _)
DecayLoopEager(cell, fp, incr, localIncr, draws) ==
    IF localIncr <= 0
    THEN [cell |-> cell, max |-> 0, evicted |-> FALSE, drawn |-> incr]
    ELSE IF draws[incr - localIncr + 1]
    THEN IF cell.count - 1 <= 1
         THEN [cell    |-> [fingerprint |-> fp, count |-> localIncr],
               max     |-> localIncr,
               evicted |-> TRUE,
               drawn   |-> incr - localIncr + 1]
         ELSE DecayLoopEager([cell EXCEPT !.count = @ - 1], fp, incr, localIncr - 1, draws)
    ELSE DecayLoopEager(cell, fp, incr, localIncr - 1, draws)

\* Mutant of DecayLoop: the evicting flow is credited with incr, not localIncr.
RECURSIVE DecayLoopFull(_, _, _, _, _)
DecayLoopFull(cell, fp, incr, localIncr, draws) ==
    IF localIncr <= 0
    THEN [cell |-> cell, max |-> 0, evicted |-> FALSE, drawn |-> incr]
    ELSE IF draws[incr - localIncr + 1]
    THEN IF cell.count - 1 <= 0
         THEN [cell    |-> [fingerprint |-> fp, count |-> incr],
               max     |-> incr,
               evicted |-> TRUE,
               drawn   |-> incr - localIncr + 1]
         ELSE DecayLoopFull([cell EXCEPT !.count = @ - 1], fp, incr, localIncr - 1, draws)
    ELSE DecayLoopFull(cell, fp, incr, localIncr - 1, draws)

\* for localIncr := incr; localIncr > 0; localIncr-- { ... } on one cell.
\* Yields the cell, its contribution to maxCount, and the draws made.
RECURSIVE DecayLoop(_, _, _, _, _)
DecayLoop(cell, fp, incr, localIncr, draws) ==
    IF localIncr <= 0
    THEN [cell |-> cell, max |-> 0, evicted |-> FALSE, drawn |-> incr]
    ELSE IF draws[incr - localIncr + 1]
    THEN IF cell.count - 1 <= 0
         THEN [cell    |-> [fingerprint |-> fp, count |-> localIncr],
               max     |-> localIncr,
               evicted |-> TRUE,
               drawn   |-> incr - localIncr + 1]
         ELSE DecayLoop([cell EXCEPT !.count = @ - 1], fp, incr, localIncr - 1, draws)
    ELSE DecayLoop(cell, fp, incr, localIncr - 1, draws)

\* Mutant of RowStep: an occupied cell is taken for the flow's own, whatever
\* its fingerprint.
RowStepAnyFingerprint(bs, flow, fp, i, incr) ==
    LET j    == slot(flow, i, Width(k)) + i * Width(k)
        cell == bs[j]
    IN  IF cell.count = 0
        THEN {[b   |-> [bs EXCEPT ![j] = [fingerprint |-> fp, count |-> incr]],
               max |-> incr,
               row |-> [branch |-> "empty", before |-> cell, evicted |-> FALSE, drawn |-> 0,
                        max |-> incr]]}
        ELSE {[b   |-> [bs EXCEPT ![j].count = @ + incr],
               max |-> cell.count + incr,
               row |-> [branch |-> "match", before |-> cell, evicted |-> FALSE, drawn |-> 0,
                        max |-> cell.count + incr]]}

\* One iteration of the loop over the rows: the possible results for row i.
RowStep(bs, flow, fp, i, incr) ==
    LET j    == slot(flow, i, Width(k)) + i * Width(k)
        cell == bs[j]
    IN  IF cell.count = 0
        THEN {[b   |-> [bs EXCEPT ![j] = [fingerprint |-> fp, count |-> incr]],
               max |-> incr,
               row |-> [branch |-> "empty", before |-> cell, evicted |-> FALSE, drawn |-> 0,
                        max |-> incr]]}
        ELSE IF cell.fingerprint = fp
        THEN {[b   |-> [bs EXCEPT ![j].count = @ + incr],
               max |-> cell.count + incr,
               row |-> [branch |-> "match", before |-> cell, evicted |-> FALSE, drawn |-> 0,
                        max |-> cell.count + incr]]}
        ELSE {LET r == DecayLoop(cell, fp, incr, incr, d)
              IN  [b   |-> [bs EXCEPT ![j] = r.cell],
                   max |-> r.max,
                   row |-> [branch |-> "decay", before |-> cell,
                            evicted |-> r.evicted, drawn |-> r.drawn, max |-> r.max]]
              : d \in Draws(incr)}

\* for i := 0; i < depth; i++ { ... }: the possible (buckets, maxCount) results.
RECURSIVE SampleRows(_, _, _, _, _, _, _)
SampleRows(bs, flow, fp, i, incr, maxCount, rows) ==
    IF i >= Depth(k)
    THEN {[b |-> bs, maxCount |-> maxCount, rows |-> rows]}
    ELSE UNION {SampleRows(r.b, flow, fp, i + 1, incr, Max(maxCount, r.max),
                           Append(rows, r.row))
                : r \in RowStep(bs, flow, fp, i, incr)}

\* Mutant of SampleHeap: the entry is written without the test against heapMin.
SampleHeapAlways(h, flow, maxCount, heapMin) ==
    LET i == Find(h, flow)
    IN  IF i > -1
        THEN [heap |-> Fix([h EXCEPT ![i].Count = maxCount], i), ret |-> TRUE]
        ELSE [heap |-> Fix([h EXCEPT ![0] = [Flow |-> flow, Count |-> maxCount]], 0),
              ret  |-> TRUE]

\* Mutant of SampleHeap: a flow one short of the minimum is admitted too.
SampleHeapLoose(h, flow, maxCount, heapMin) ==
    IF maxCount + 1 >= heapMin
    THEN LET i == Find(h, flow)
         IN  IF i > -1
             THEN [heap |-> Fix([h EXCEPT ![i].Count = maxCount], i), ret |-> TRUE]
             ELSE [heap |-> Fix([h EXCEPT ![0] = [Flow |-> flow, Count |-> maxCount]], 0),
                   ret  |-> TRUE]
    ELSE [heap |-> h, ret |-> FALSE]

\* if maxCount >= heapMin { ... return true }; return false
SampleHeap(h, flow, maxCount, heapMin) ==
    IF maxCount >= heapMin
    THEN LET i == Find(h, flow)
         IN  IF i > -1
             THEN [heap |-> Fix([h EXCEPT ![i].Count = maxCount], i), ret |-> TRUE]
             ELSE [heap |-> Fix([h EXCEPT ![0] = [Flow |-> flow, Count |-> maxCount]], 0),
                   ret  |-> TRUE]
    ELSE [heap |-> h, ret |-> FALSE]

TotalWeight == weight[""] + weight["a"] + weight["b"]

\* The results the rows loop of Sample(flow, incr) can have in this state.
SampleOutcomes(flow, incr) ==
    SampleRows(buckets, flow, fingerprint(flow), 0, incr, 0, <<>>)

\* What Sample(flow, incr) returns when its rows loop ends in r.
SampleRet(flow, r) == SampleHeap(heap, flow, r.maxCount, Min(heap)).ret

\* Sample(flow, incr), its rows loop ending in r \in SampleOutcomes(flow, incr):
\* heapMin is read before the loop.
Sample(flow, incr, r) ==
    /\ buckets' = r.b
    /\ heap' = SampleHeap(heap, flow, r.maxCount, Min(heap)).heap
    /\ weight' = [weight EXCEPT ![flow] = @ + incr]
    /\ UNCHANGED <<k, decayOne, hash>>

\* ------------------------------------------------------------- DecayAll
\* The fractions the callers pass, f = num / den as written in the call; tiny
\* marks f = 1e-20, which is positive and below 2^-54.
\* float64 arithmetic: pct = 1 - f is computed in IEEE-754 double precision and
\* differs from the real number 1 - f by err / ErrDen units of 2^-54 (positive:
\* the double is the smaller one); for the tiny f the double 1 - f is 1.0.
ErrDen == 5

Fractions ==
    {[name |-> "-0.5",  num |-> -1, den |-> 2,  err |-> 0, tiny |-> FALSE],
     [name |-> "0",     num |-> 0,  den |-> 1,  err |-> 0, tiny |-> FALSE],
     [name |-> "1e-20", num |-> 0,  den |-> 1,  err |-> 0, tiny |-> TRUE],
     [name |-> "0.3",   num |-> 3,  den |-> 10, err |-> 4, tiny |-> FALSE],
     [name |-> "0.8",   num |-> 4,  den |-> 5,  err |-> 4, tiny |-> FALSE],
     [name |-> "1",     num |-> 1,  den |-> 1,  err |-> 0, tiny |-> FALSE],
     [name |-> "1.5",   num |-> 3,  den |-> 2,  err |-> 0, tiny |-> FALSE]}

\* if pct <= 0 { return }
FracLeqZero(fr) == ~fr.tiny /\ fr.num <= 0

\* Mutant of FracGtOne: the test is made against 2.
FracGtTwo(fr) == fr.num > 2 * fr.den

\* else if pct > 1 { hk.Reset(); return }
FracGtOne(fr) == fr.num > fr.den

\* Half the gap between the integer m >= 1 and the double just below it, in
\* units of 2^-54: the least power of two that is >= m.
RECURSIVE HalfUlpBelow(_)
HalfUlpBelow(m) == IF m <= 1 THEN 1 ELSE 2 * HalfUlpBelow((m + 1) \div 2)

\* Mutant of MulPct: pct is not turned into 1 - pct but into 1 + pct.
MulPctGrow(c, fr) ==
    IF fr.tiny THEN c ELSE (c * (fr.den + fr.num)) \div fr.den

\* uint32(float64(c) * pct) with pct = 1 - f in float64.  The exact product
\* c * (1 - f) is q + rest / den.  When it is the integer q, the double product
\* lands below q (and truncates to q - 1) iff the error c * err exceeds half the
\* gap below q; a tie rounds to the even neighbour, which is q.
MulPct(c, fr) ==
    LET n    == c * (fr.den - fr.num)
        q    == n \div fr.den
        rest == n % fr.den
    IN  IF fr.tiny THEN c
        ELSE IF rest = 0 /\ q > 0 /\ c * fr.err > ErrDen * HalfUlpBelow(q)
        THEN q - 1
        ELSE q

\* Mutant of ResetBuckets: the counts are zeroed, the fingerprints kept.
ResetCounts(bs) == [i \in DOMAIN bs |-> [bs[i] EXCEPT !.count = 0]]

ResetBuckets(bs) == [i \in DOMAIN bs |-> emptyBucket]
ResetHeap(h)     == [i \in DOMAIN h |-> emptyFlowCount]

DecayBuckets(bs, fr) == [i \in DOMAIN bs |-> [bs[i] EXCEPT !.count = MulPct(@, fr)]]
DecayHeap(h, fr)     == [i \in DOMAIN h |-> [h[i] EXCEPT !.Count = MulPct(@, fr)]]

DecayAll(fr) ==
    /\ IF FracLeqZero(fr)
       THEN UNCHANGED <<buckets, heap, weight>>
       ELSE IF FracGtOne(fr)
       THEN /\ buckets' = ResetBuckets(buckets)
            /\ heap' = ResetHeap(heap)
            /\ weight' = [f \in Flows |-> 0]
       ELSE /\ buckets' = DecayBuckets(buckets, fr)
            /\ heap' = DecayHeap(heap, fr)
            /\ UNCHANGED weight
    /\ UNCHANGED <<k, decayOne, hash>>

\* ---------------------------------------------------------------- Reset
Reset ==
    /\ buckets' = ResetBuckets(buckets)
    /\ heap' = ResetHeap(heap)
    /\ weight' = [f \in Flows |-> 0]
    /\ UNCHANGED <<k, decayOne, hash>>

\* ------------------------------------------------------- Top and Count
\* top = append(top[:0], hk.heap...)
HeapSeq(h) == [n \in 1 .. HeapLen(h) |-> h[n - 1]]

\* sort.Stable(sort.Reverse(byCount(top))): x goes behind every entry whose
\* count is >= its own, so equal counts keep the order of the heap array.
RECURSIVE InsertDesc(_, _)
InsertDesc(s, x) ==
    IF s = <<>> THEN <<x>>
    ELSE IF Head(s).Count >= x.Count THEN <<Head(s)>> \o InsertDesc(Tail(s), x)
    ELSE <<x>> \o s

RECURSIVE StableSortDesc(_)
StableSortDesc(s) ==
    IF s = <<>> THEN <<>>
    ELSE InsertDesc(StableSortDesc(SubSeq(s, 1, Len(s) - 1)), s[Len(s)])

\* Mutant of Trim: drops one trailing empty entry at most.
TrimOnce(s) ==
    IF s = <<>> THEN s
    ELSE IF s[Len(s)].Count > 0 THEN s
    ELSE SubSeq(s, 1, Len(s) - 1)

\* for ; end > 0; end-- { if top[end-1].Count > 0 { break } }; top[:end]
RECURSIVE Trim(_)
Trim(s) ==
    IF s = <<>> THEN s
    ELSE IF s[Len(s)].Count > 0 THEN s
    ELSE Trim(SubSeq(s, 1, Len(s) - 1))

TopInto(h) == Trim(StableSortDesc(HeapSeq(h)))

Top(h) == TopInto(h)

\* for _, hb := range hk.heap { if hb.Flow == flow { return hb.Count, true } }
Count(h, flow) ==
    LET i == Find(h, flow)
    IN  IF i > -1 THEN [count |-> h[i].Count, ok |-> TRUE]
                  ELSE [count |-> 0, ok |-> FALSE]

\* Mutant of TopCall: the entries are sorted in hk.heap itself, not in a copy.
TopCallInPlace ==
    /\ heap' = [i \in DOMAIN heap |-> StableSortDesc(HeapSeq(heap))[i + 1]]
    /\ UNCHANGED <<k, decayOne, hash, buckets, weight>>

\* Top, TopInto and Count work on a copy of hk.heap or only read it.
TopCall == UNCHANGED <<k, decayOne, hash, buckets, heap, weight>>

CountCall(flow) == UNCHANGED <<k, decayOne, hash, buckets, heap, weight>>

\* ------------------------------------------------------------------ New
\* make([]bucket, depth*width) allocates the cells 0 .. depth*width - 1.  Sample
\* writes only the cells some flow hashes to, and DecayAll and Reset map a zero
\* cell to itself, so the cells no flow of Flows hashes to hold the zero value
\* forever; the state keeps the cells that can change.
Cells(kk, h) ==
    {(h.sum[p] % Width(kk)) + p[2] * Width(kk) : p \in Flows \X Rows(kk)}

\* New(k, decay) with k >= 1 and 0 < decay <= 1 (anything else panics).
New(kk, one, h) ==
    /\ k = kk
    /\ decayOne = one
    /\ hash = h
    /\ buckets = [i \in Cells(kk, h) |-> emptyBucket]
    /\ heap = [i \in 0 .. kk - 1 |-> emptyFlowCount]

Fresh ==
    /\ buckets = [i \in DOMAIN buckets |-> emptyBucket]
    /\ heap = [i \in DOMAIN heap |-> emptyFlowCount]

\* ---------------------------------------------------------- the call log
\* last is the log entry of the last completed call: its arguments, what it
\* returned, and whether the sketch it was applied to was like-new.
NoCall ==
    [op |-> "New", flow |-> "", incr |-> 0, ret |-> FALSE, heapMin |-> 0,
     maxCount |-> 0, rows |-> <<>>, frac |-> "", fresh |-> TRUE,
     top |-> <<>>, count |-> 0]

LogSample(flow, incr, r) ==
    [NoCall EXCEPT !.op = "Sample", !.flow = flow, !.incr = incr,
                   !.ret = SampleRet(flow, r), !.heapMin = Min(heap),
                   !.maxCount = r.maxCount, !.rows = r.rows, !.fresh = Fresh]

LogDecayAll(fr) == [NoCall EXCEPT !.op = "DecayAll", !.frac = fr.name, !.fresh = Fresh]

LogReset == [NoCall EXCEPT !.op = "Reset", !.fresh = Fresh]

LogTop == [NoCall EXCEPT !.op = "Top", !.top = Top(heap), !.fresh = Fresh]

LogCount(flow) ==
    [NoCall EXCEPT !.op = "Count", !.flow = flow, !.ret = Count(heap, flow).ok,
                   !.count = Count(heap, flow).count, !.fresh = Fresh]

\* ------------------------------------------------------- specifications
\* Spec: every call sequence over all the sketches New builds, without log.
Init ==
    /\ \E kk \in 1 .. MaxK, c \in Configs :
          New(kk, c.one, HashOf(c.hash, kk))
    /\ weight = [f \in Flows |-> 0]
    /\ last = NoCall

SampleCall ==
    \E flow \in Flows, incr \in 0 .. MaxIncr :
        /\ TotalWeight + incr <= MaxTotal
        /\ \E r \in SampleOutcomes(flow, incr) : Sample(flow, incr, r)
        /\ UNCHANGED last

DecayAllCall == \E fr \in Fractions : DecayAll(fr) /\ UNCHANGED last

ResetCall == Reset /\ UNCHANGED last

TopQuery == TopCall /\ UNCHANGED last

CountQuery == \E flow \in Flows : CountCall(flow) /\ UNCHANGED last

Next ==
    \/ SampleCall
    \/ DecayAllCall
    \/ ResetCall
    \/ TopQuery
    \/ CountQuery

Spec == Init /\ [][Next]_vars

\* SpecLog: the same calls, each leaving its log entry in last.
InitLog ==
    /\ \E c \in LogConfigs : New(c.k, c.one, HashOf(c.hash, c.k))
    /\ weight = [f \in Flows |-> 0]
    /\ last = NoCall

SampleLogged ==
    \E flow \in Flows, incr \in 0 .. MaxIncr :
        /\ TotalWeight + incr <= MaxTotal
        /\ \E r \in SampleOutcomes(flow, incr) :
              /\ Sample(flow, incr, r)
              /\ last' = LogSample(flow, incr, r)

DecayAllLogged == \E fr \in Fractions : DecayAll(fr) /\ last' = LogDecayAll(fr)

ResetLogged == Reset /\ last' = LogReset

TopLogged == TopCall /\ last' = LogTop

CountLogged == \E flow \in Flows : CountCall(flow) /\ last' = LogCount(flow)

NextLog ==
    \/ SampleLogged
    \/ DecayAllLogged
    \/ ResetLogged
    \/ TopLogged
    \/ CountLogged

SpecLog == InitLog /\ [][NextLog]_vars

\* SpecExact: Sample calls with weights >= 1 on a sketch whose hash function
\* maps no two flows to the same fingerprint or cell; no DecayAll, no Reset.
InitExact ==
    /\ \E kk \in 1 .. MaxK : New(kk, FALSE, HashOf("distinct", kk))
    /\ weight = [f \in Flows |-> 0]
    /\ last = NoCall

SampleExact ==
    \E flow \in Flows, incr \in 1 .. MaxIncr :
        /\ TotalWeight + incr <= MaxTotal
        /\ \E r \in SampleOutcomes(flow, incr) : Sample(flow, incr, r)
        /\ UNCHANGED last

NextExact == SampleExact

SpecExact == InitExact /\ [][NextExact]_vars

\* SpecLong: longer sequences of Sample calls, with Reset, each leaving its log
\* entry in last, on the sketches of SpecLog.
SampleLong ==
    \E flow \in Flows, incr \in 0 .. MaxIncr :
        /\ TotalWeight + incr <= MaxLongTotal
        /\ \E r \in SampleOutcomes(flow, incr) :
              /\ Sample(flow, incr, r)
              /\ last' = LogSample(flow, incr, r)

NextLong ==
    \/ SampleLong
    \/ ResetLogged

SpecLong == InitLog /\ [][NextLong]_vars

\* SpecDraw: logged calls on sketches with decay < 1 whose flows share their
\* cell of row 0, so that every decay draw may go either way.
InitDraw ==
    /\ \E c \in DrawConfigs : New(c.k, c.one, HashOf(c.hash, c.k))
    /\ weight = [f \in Flows |-> 0]
    /\ last = NoCall

NextDraw ==
    \/ SampleLogged
    \/ DecayAllLogged
    \/ ResetLogged

SpecDraw == InitDraw /\ [][NextDraw]_vars

\* No two distinct flows share a fingerprint or a cell in any row.
NoCollisions ==
    \A f, g \in Flows :
        f # g => /\ fingerprint(f) # fingerprint(g)
                 /\ \A i \in Rows(k) : slot(f, i, Width(k)) # slot(g, i, Width(k))

\* ---------------------------------------------------------------- claims
\* C1: in every reachable state Top() returns exactly the tracker entries whose
\* count is > 0 (each as often as the tracker holds it): at most K entries,
\* none with count 0, counts non-increasing from first to last.
C1_TopIsOccupiedSorted ==
    LET t == Top(heap)
    IN  /\ Len(t) <= k
        /\ \A n \in 1 .. Len(t) : t[n].Count > 0
        /\ \A n \in 1 .. Len(t) - 1 : t[n].Count >= t[n + 1].Count
        /\ \A i \in DOMAIN heap :
              Cardinality({n \in 1 .. Len(t) : t[n] = heap[i]})
                = IF heap[i].Count > 0
                  THEN Cardinality({j \in DOMAIN heap : heap[j] = heap[i]})
                  ELSE 0
        /\ \A n \in 1 .. Len(t) : \E i \in DOMAIN heap : heap[i] = t[n]

\* A sketch with k = 3 whose tracker holds two empty entries, one of them named,
\* and an occupied entry behind them in the heap array.
C1_Witness ==
    /\ k = 3
    /\ Len(Top(heap)) = 1
    /\ \E i \in DOMAIN heap : heap[i].Count = 0 /\ heap[i].Flow # ""
    /\ heap[0].Count = 0

\* C2: without collisions, with weights >= 1 and no DecayAll or Reset, every
\* tracker entry with count > 0 holds exactly the cumulative weight of its flow,
\* every flow that is not in the tracker has cumulative weight <= the tracker
\* minimum, and Top() lists the min(n, K) heaviest of the n flows seen, each
\* once, in decreasing order with exact counts.
C2_ExactCounts ==
    LET t    == Top(heap)
        seen == {f \in Flows : weight[f] > 0}
        n    == Cardinality(seen)
    IN  NoCollisions =>
        /\ \A i \in DOMAIN heap :
              heap[i].Count > 0 => heap[i].Count = weight[heap[i].Flow]
        /\ \A f \in Flows :
              (\A i \in DOMAIN heap : heap[i].Flow # f) => weight[f] <= Min(heap)
        /\ Len(t) = IF n < k THEN n ELSE k
        /\ \A m \in 1 .. Len(t) : t[m].Count = weight[t[m].Flow]
        /\ \A m, m2 \in 1 .. Len(t) : m < m2 => t[m].Flow # t[m2].Flow
        /\ \A m \in 1 .. Len(t) - 1 : t[m].Count >= t[m + 1].Count
        /\ \A f \in seen :
              (\A m \in 1 .. Len(t) : t[m].Flow # f)
                 => \A m \in 1 .. Len(t) : weight[f] <= t[m].Count

\* C2 for the flows with a name: the same statement while "" was never sampled.
C2_ExactCountsNamed == weight[""] = 0 => C2_ExactCounts

\* flow is the Flow of some entry of the tracker.
InTracker(h, flow) == \E i \in DOMAIN h : h[i].Flow = flow

\* C3: Sample(flow, w) returns true if and only if, right after the call, flow
\* is represented by a tracker entry (stated for named flows and w >= 1, so
\* that neither the empty flow name nor a zero weight is involved).
C3_TrueIffTracked ==
    (last.op = "Sample" /\ last.incr >= 1 /\ last.flow # "")
        => (last.ret <=> InTracker(heap, last.flow))

\* C4: Sample(flow, 0) changes no cell and no tracker entry, so Top() and
\* Count(x) give the same results before and after the call.
C4_ZeroWeightNoOp ==
    [][\A flow \in Flows : \A r \in SampleOutcomes(flow, 0) :
          Sample(flow, 0, r)
             => /\ UNCHANGED <<buckets, heap>>
                /\ Top(heap') = Top(heap)
                /\ \A x \in Flows : Count(heap', x) = Count(heap, x)]_vars

\* C5: after Reset() Top() is empty and Count(x) returns (0, false) for every
\* flow x, the empty string included.
C5_ResetForgetsAll ==
    last.op = "Reset"
        => /\ Top(heap) = <<>>
           /\ \A x \in Flows : Count(heap, x) = [count |-> 0, ok |-> FALSE]

\* C5 for the flows with a name.
C5_ResetForgetsNamed ==
    last.op = "Reset"
        => /\ Top(heap) = <<>>
           /\ \A x \in Flows \ {""} : Count(heap, x) = [count |-> 0, ok |-> FALSE]

\* C6: a flow that is not among the entries Top() returns is reported as not
\* found by Count (stated for named flows that were sampled with a positive
\* weight, so that neither the empty flow name nor a zero weight is involved).
C6_NotInTopNotFound ==
    \A x \in Flows \ {""} :
        (weight[x] > 0 /\ \A n \in 1 .. Len(Top(heap)) : Top(heap)[n].Flow # x)
            => ~Count(heap, x).ok

\* C7: after every mutating operation the tracker has exactly K entries that
\* satisfy the min-heap property on count, so the root holds the minimum count,
\* and while fewer than K entries are occupied the root count is 0.
C7_HeapProperty ==
    /\ DOMAIN heap = 0 .. k - 1
    /\ \A i \in 1 .. k - 1 : heap[i].Count >= heap[(i - 1) \div 2].Count
    /\ \A i \in DOMAIN heap : heap[0].Count <= heap[i].Count
    /\ Cardinality({i \in DOMAIN heap : heap[i].Count > 0}) < k => heap[0].Count = 0

\* A full tracker of three entries whose children differ and whose root was
\* sifted: the last entry of the array is not the largest.
C7_Witness ==
    /\ k = 3
    /\ heap[0].Count > 0
    /\ heap[1].Count > heap[2].Count
    /\ heap[2].Count > heap[0].Count

\* C8: Reset() yields the state of a freshly constructed sketch with the same K
\* and decay: every cell is {fingerprint 0, count 0}, every tracker entry is
\* {"", 0}, dimensions, K and decay are unchanged; a second Reset changes nothing.
C8_ResetIsLikeNew ==
    [][last'.op = "Reset"
          => /\ UNCHANGED <<k, decayOne, hash>>
             /\ DOMAIN buckets' = Cells(k, hash)
             /\ \A i \in DOMAIN buckets' : buckets'[i] = [fingerprint |-> 0, count |-> 0]
             /\ heap' = [i \in 0 .. k - 1 |-> [Flow |-> "", Count |-> 0]]
             /\ (last.op = "Reset" => UNCHANGED <<buckets, heap>>)]_vars

\* Reset was called on a sketch holding fingerprints, counts and flows.
C8_Witness ==
    /\ last.op = "Reset"
    /\ ~last.fresh

\* floor(c * (1 - f)) in exact arithmetic, f = num / den.
RealFloor(c, fr) == (c * (fr.den - fr.num)) \div fr.den

\* C9: DecayAll(f) with 0 < f <= 1 replaces every cell count and every tracker
\* count c by floor(c * (1 - f)) and leaves fingerprints, flow names and entry
\* positions unchanged (stated for the fractions written as decimals).
C9_DecayAllFloors ==
    [][\A fr \in Fractions :
          (last'.op = "DecayAll" /\ last'.frac = fr.name
             /\ ~fr.tiny /\ 0 < fr.num /\ fr.num <= fr.den)
          => /\ buckets' = [i \in DOMAIN buckets |->
                              [buckets[i] EXCEPT !.count = RealFloor(@, fr)]]
             /\ heap' = [i \in DOMAIN heap |->
                           [heap[i] EXCEPT !.Count = RealFloor(@, fr)]]]_vars

\* C10: DecayAll(f) with f <= 0 leaves all cells and tracker entries unchanged,
\* and DecayAll(f) with f > 1 produces the state Reset() produces.
C10_DecayAllDegenerates ==
    [][\A fr \in Fractions :
          (last'.op = "DecayAll" /\ last'.frac = fr.name)
          => /\ (~fr.tiny /\ fr.num <= 0) => UNCHANGED <<buckets, heap>>
             /\ fr.num > fr.den
                   => /\ buckets' = ResetBuckets(buckets)
                      /\ heap' = ResetHeap(heap)]_vars

\* DecayAll(1.5) was called on a sketch holding fingerprints, counts and flows.
C10_Witness ==
    /\ last.op = "DecayAll"
    /\ last.frac = "1.5"
    /\ ~last.fresh

\* C11: a Sample call whose maxCount is strictly below the tracker minimum read
\* before the call returns false and leaves every tracker entry (flow, count
\* and position) as it was; only cells may have changed.
C11_RejectedLeavesTracker ==
    [][(last'.op = "Sample" /\ last'.maxCount < Min(heap))
          => /\ last'.ret = FALSE
             /\ heap' = heap
             /\ UNCHANGED <<k, decayOne, hash>>]_vars

\* A rejected Sample call that made a decay draw, and so changed a cell.
C11_Witness ==
    /\ last.op = "Sample"
    /\ last.maxCount < last.heapMin
    /\ ~last.ret
    /\ \E n \in 1 .. Len(last.rows) :
          last.rows[n].branch = "decay" /\ last.rows[n].drawn >= 1

\* Cell j is the cell Sample(f, _) addresses in the row of j.
RoutesTo(f, j) ==
    LET i == j \div Width(k)
    IN  i \in Rows(k) /\ slot(f, i, Width(k)) + i * Width(k) = j

\* The cumulative weight of the Sample calls since New/Reset that addressed cell j.
Routed(j) ==
    (IF RoutesTo("", j)  THEN weight[""]  ELSE 0)
  + (IF RoutesTo("a", j) THEN weight["a"] ELSE 0)
  + (IF RoutesTo("b", j) THEN weight["b"] ELSE 0)

\* C12: in every reachable state every cell's count is >= 0 and <= the sum of
\* the weights of the Sample calls whose slot in that row was this cell.
C12_CellBoundedByRouted ==
    \A j \in DOMAIN buckets :
        /\ buckets[j].count >= 0
        /\ buckets[j].count <= Routed(j)

\* A cell two sampled flows share on a sketch with random draws: it holds "b"
\* with a count >= 2 that is below the weight routed through the cell.
C12_Witness ==
    \E j \in DOMAIN buckets :
        /\ RoutesTo("a", j) /\ RoutesTo("b", j)
        /\ weight["a"] > 0 /\ weight["b"] > 0
        /\ buckets[j].count >= 2
        /\ buckets[j].count < Routed(j)
        /\ buckets[j].fingerprint = fingerprint("b")
        /\ ~decayOne

\* C13: Top(), TopInto() and Count() leave every cell and every tracker entry
\* (flow, count and position in the heap array) unchanged, and return what the
\* state they were called in determines.
C13_ReadsArePure ==
    [][/\ last'.op \in {"Top", "Count"} => UNCHANGED <<k, decayOne, hash, buckets, heap>>
       /\ last'.op = "Top" => last'.top = Top(heap')
       /\ last'.op = "Count"
             => /\ last'.ret = Count(heap', last'.flow).ok
                /\ last'.count = Count(heap', last'.flow).count]_vars

\* Top() was called on a full tracker of two entries whose array order is not
\* the order of the result.
C13_Witness ==
    /\ last.op = "Top"
    /\ k = 2
    /\ heap[0].Count > 0
    /\ heap[0].Count < heap[1].Count
    /\ Len(last.top) = 2
    /\ last.top[1] = heap[1]

\* The number of entries of h equal to e.
Occ(h, e) == Cardinality({i \in DOMAIN h : h[i] = e})

\* The tracker holds exactly the entries e1 and e2.
HoldsPair(h, e1, e2) ==
    /\ DOMAIN h = {0, 1}
    /\ {h[0], h[1]} = {e1, e2}

\* C14: a Sample call for a flow that is no tracker entry, with maxCount >= the
\* root count read before the call (equality included), returns true, removes
\* the entry that was at the root and puts (flow, maxCount) in its place, every
\* other entry keeping its flow and count.  With K = 2 and tracker {a:3, b:2}
\* (no collisions) the first Sample(c, 1) of a new flow c returns false and the
\* second returns true and displaces b; the flow "" is that new flow here.
C14_RootReplaced ==
    [][/\ (last'.op = "Sample" /\ ~InTracker(heap, last'.flow)
             /\ last'.maxCount >= heap[0].Count)
          => LET new == [Flow |-> last'.flow, Count |-> last'.maxCount]
             IN  /\ last'.ret
                 /\ \A e \in {heap[i] : i \in DOMAIN heap} \cup {heap'[i] : i \in DOMAIN heap'} :
                       Occ(heap', e) = Occ(heap, e) - (IF e = heap[0] THEN 1 ELSE 0)
                                                  + (IF e = new THEN 1 ELSE 0)
       /\ (/\ last'.op = "Sample" /\ last'.flow = "" /\ last'.incr = 1
           /\ k = 2 /\ NoCollisions
           /\ HoldsPair(heap, [Flow |-> "a", Count |-> 3], [Flow |-> "b", Count |-> 2]))
          => /\ weight[""] = 0 => (~last'.ret /\ heap' = heap)
             /\ weight[""] = 1
                  => /\ last'.ret
                     /\ HoldsPair(heap', [Flow |-> "a", Count |-> 3],
                                         [Flow |-> "", Count |-> 2])]_vars

\* K = 2, no collisions: after a, a, a, b, b the new flow was sampled twice with
\* weight 1; the second call returned true and took the place of b.
C14_Witness ==
    /\ k = 2 /\ NoCollisions
    /\ last.op = "Sample" /\ last.flow = "" /\ last.incr = 1 /\ last.ret
    /\ last.maxCount = 2 /\ last.heapMin = 2
    /\ weight = [f \in Flows |-> CASE f = "a" -> 3 [] f = "b" -> 2 [] f = "" -> 2]
    /\ HoldsPair(heap, [Flow |-> "a", Count |-> 3], [Flow |-> "", Count |-> 2])
    /\ ~Count(heap, "b").ok

\* The cell the logged Sample call lg addressed in row n (rows numbered from 1).
CellOfRow(lg, n) == slot(lg.flow, n - 1, Width(k)) + (n - 1) * Width(k)

\* C15 as stated: when the occupant's count reaches zero on the t-th draw of a
\* row, the cell ends the call holding fingerprint(flow) with count w - t, and
\* no further draw is made for that row.
C15_EvictionLeavesWMinusT ==
    [][last'.op = "Sample"
          => \A n \in 1 .. Len(last'.rows) :
                last'.rows[n].evicted
                   => /\ last'.rows[n].drawn \in 1 .. last'.incr
                      /\ buckets'[CellOfRow(last', n)]
                            = [fingerprint |-> fingerprint(last'.flow),
                               count       |-> last'.incr - last'.rows[n].drawn]]_vars

\* C15 amended: the cell ends the call with count w - t + 1, the unit of the
\* t-th draw included; t is at least the occupant's count before the call.
C15_EvictionLeavesRest ==
    [][last'.op = "Sample"
          => \A n \in 1 .. Len(last'.rows) :
                last'.rows[n].evicted
                   => /\ last'.rows[n].branch = "decay"
                      /\ last'.rows[n].drawn \in 1 .. last'.incr
                      /\ last'.rows[n].drawn >= last'.rows[n].before.count
                      /\ last'.rows[n].before = buckets[CellOfRow(last', n)]
                      /\ buckets'[CellOfRow(last', n)]
                            = [fingerprint |-> fingerprint(last'.flow),
                               count       |-> last'.incr - last'.rows[n].drawn + 1]]_vars

\* An eviction on the second draw of a row, after a draw that failed.
C15_Witness ==
    /\ last.op = "Sample"
    /\ last.rows[1].evicted
    /\ last.rows[1].drawn = 2
    /\ last.rows[1].before.count = 1
    /\ buckets[CellOfRow(last, 1)].count = last.incr - 1

\* C16: a Sample(flow, w) that hits a cell of a different fingerprint with count
\* c lowers the count by unit decrements only, at most w of them and never below
\* zero; if w < c the occupant keeps its fingerprint with a count >= c - w > 0,
\* the row contributes nothing to maxCount and the occupant is not evicted,
\* whatever the draws are.
C16_DecayIsBounded ==
    [][last'.op = "Sample"
          => \A n \in 1 .. Len(last'.rows) :
                last'.rows[n].branch = "decay"
                   => LET c     == last'.rows[n].before.count
                          w     == last'.incr
                          after == buckets'[CellOfRow(last', n)]
                      IN  /\ last'.rows[n].before = buckets[CellOfRow(last', n)]
                          /\ c >= 1
                          /\ after.count >= 0
                          /\ last'.rows[n].evicted => c <= w
                          /\ ~last'.rows[n].evicted
                                => /\ after.fingerprint = last'.rows[n].before.fingerprint
                                   /\ after.count <= c
                                   /\ after.count >= c - w
                                   /\ after.count >= 1
                                   /\ last'.rows[n].max = 0
                          /\ w < c
                                => /\ ~last'.rows[n].evicted
                                   /\ after.fingerprint = last'.rows[n].before.fingerprint
                                   /\ after.count >= c - w
                                   /\ after.count > 0
                                   /\ last'.rows[n].max = 0]_vars

\* A call of weight 2 on a cell another flow holds with count 3: both draws
\* succeeded and the occupant is left with count 1.
C16_Witness ==
    /\ last.op = "Sample"
    /\ last.incr = 2
    /\ last.rows[1].branch = "decay"
    /\ last.rows[1].before.count = 3
    /\ ~last.rows[1].evicted
    /\ buckets[CellOfRow(last, 1)].count = 1
    /\ buckets[CellOfRow(last, 1)].fingerprint = last.rows[1].before.fingerprint

\* fr is a fraction f with 0 < f <= 1.
FracInUnit(fr) == (fr.tiny \/ fr.num > 0) /\ fr.num <= fr.den

\* Every positive count of the cells bs and the entries h is lower in bs2, h2.
AllLowered(bs, h, bs2, h2) ==
    /\ \A i \in DOMAIN bs : bs[i].count > 0 => bs2[i].count < bs[i].count
    /\ \A i \in DOMAIN h  : h[i].Count > 0 => h2[i].Count < h[i].Count

\* C17: for every fraction f with 0 < f <= 1 and every reachable state, a call
\* DecayAll(f) strictly lowers every positive cell count and tracker count (so
\* repeating it without a Sample in between ends with all counts 0 and Top()
\* empty after finitely many calls).
C17_DecayAllLowers ==
    [][\A fr \in Fractions :
          (last'.op = "DecayAll" /\ last'.frac = fr.name /\ FracInUnit(fr))
             => AllLowered(buckets, heap, buckets', heap')]_vars

\* C17 for the fractions whose float64 difference 1 - f is below 1.
C17_DecayAllLowersDecimal ==
    [][\A fr \in Fractions :
          (last'.op = "DecayAll" /\ last'.frac = fr.name /\ FracInUnit(fr) /\ ~fr.tiny)
             => AllLowered(buckets, heap, buckets', heap')]_vars

\* C18: in every reachable state every flow the API accepts holds at most one
\* occupied tracker entry, and Top() lists no flow twice.
C18_OneEntryPerFlow ==
    /\ \A f \in Flows :
          Cardinality({i \in DOMAIN heap : heap[i].Flow = f /\ heap[i].Count > 0}) <= 1
    /\ \A m, n \in 1 .. Len(Top(heap)) :
          m # n => Top(heap)[m].Flow # Top(heap)[n].Flow

\* C18 for the flows with a name: at most one entry, occupied or not.
C18_OneEntryPerNamedFlow ==
    \A f \in Flows \ {""} :
        Cardinality({i \in DOMAIN heap : heap[i].Flow = f}) <= 1

\* The least count among the entries of h, wherever it stands in the array.
LeastCount(h) ==
    CHOOSE c \in {h[i].Count : i \in DOMAIN h} : \A i \in DOMAIN h : c <= h[i].Count

\* C19: across a Sample call, whatever the collisions and the draws, the
\* tracker's minimum count (the root's count) does not decrease.
C19_SampleKeepsMin ==
    [][last'.op = "Sample"
          => /\ Min(heap') >= Min(heap)
             /\ LeastCount(heap') >= LeastCount(heap)
             /\ LeastCount(heap') = Min(heap')]_vars

\* C19 for the specifications without call log: every step that is a Sample call.
C19_AnySampleStep ==
    [][\A flow \in Flows, incr \in 0 .. MaxIncr :
          \A r \in SampleOutcomes(flow, incr) :
              Sample(flow, incr, r)
                 => /\ Min(heap') >= Min(heap)
                    /\ LeastCount(heap') >= LeastCount(heap)]_vars

\* K = 2, full tracker with minimum >= 1: a Sample call for a tracked flow whose
\* cells another flow had taken over was admitted at maxCount = heapMin and
\* wrote a count below the flow's cumulative weight into the flow's entry.
C19_Witness ==
    /\ k = 2
    /\ last.op = "Sample" /\ last.ret
    /\ last.heapMin >= 1
    /\ last.maxCount = last.heapMin
    /\ Min(heap) = last.heapMin
    /\ \E n \in 1 .. Len(last.rows) : last.rows[n].evicted
    /\ Count(heap, last.flow) = [count |-> last.maxCount, ok |-> TRUE]
    /\ last.maxCount < weight[last.flow] - last.incr

\* Distinct flows have distinct fingerprints.
DistinctFingerprints ==
    \A f, g \in Flows : f # g => fingerprint(f) # fingerprint(g)

\* C20: provided distinct flows have distinct fingerprints, in every reachable
\* state the count of a tracker entry, and with it the counts Top() and Count()
\* report, is at most the cumulative weight given to Sample for that flow since
\* New or the last Reset.
C20_NeverOverestimates ==
    DistinctFingerprints =>
        /\ \A i \in DOMAIN heap : heap[i].Count <= weight[heap[i].Flow]
        /\ \A n \in 1 .. Len(Top(heap)) : Top(heap)[n].Count <= weight[Top(heap)[n].Flow]
        /\ \A f \in Flows : Count(heap, f).count <= weight[f]

\* Flows with distinct fingerprints share cells: the tracker holds one flow with
\* its exact weight and another with a positive count below its weight.
C20_Witness ==
    /\ DistinctFingerprints
    /\ ~NoCollisions
    /\ \E i, j \in DOMAIN heap :
          /\ heap[i].Flow # heap[j].Flow
          /\ heap[i].Count > 0
          /\ heap[i].Count = weight[heap[i].Flow]
          /\ heap[j].Count > 0
          /\ heap[j].Count < weight[heap[j].Flow]

====
